---- MODULE Spec2Model ----
(***************************************************************************)
(* Test run orchestration of the VS Code test runner extension:            *)
(*   - the continuous run scheduler of createRunHandler (extension.ts),    *)
(*   - the debug flow of AngularTestRunner.debug with its wait server      *)
(*     (the readiness gate) and debug adapter trackers                     *)
(*     (vscodeTestRunner.ts),                                              *)
(*   - the argument vector AngularTestRunner.prepareArgs builds from the   *)
(*     runner config file and the selected test items.                     *)
(* JavaScript runs every callback to completion, so one action is one      *)
(* callback, or the part of an async function between two awaits.          *)
(***************************************************************************)
EXTENDS Integers, Sequences, FiniteSets, TLC

\* ------------------------------------------------------------------ bounds
MaxLog == 4        \* qualifying notifications one listener handles
MaxRuns == 2       \* run requests issued by one handler
MaxTimers == 2     \* distinct timer handles alive or referenced at once
MaxSessions == 2   \* debug sessions of any shape created during one debug run
MaxSockets == 2    \* connections accepted by the wait server
MaxMsgs == 2       \* requests the trackers see on their way to the adapters
MaxFilter == 2     \* test items in one selection
MaxName == 2       \* characters of a test name

\* --------------------------------------------------------------- constants
Undefined == -1              \* JavaScript undefined, where a number is expected
NoSession == 0               \* undefined, where a debug session is expected
NoUri == "undefined"         \* TestItem.uri === undefined
\* req.include === undefined (a list no request can hold)
NoInclude == << [id |-> "undefined", uri |-> NoUri] >>
ATTACH_CONFIG_NAME == "Attach to VS Code"
DEBUG_TYPE == "pwa-chrome"

\* Files the workspace watcher reports (they match TEST_FILE_PATTERN).
Files == {"A", "B"}

\* Test items a request can include: a file node and a case of A, the file
\* node of B, and an item without uri.
Items ==
  { [id |-> "fileA", uri |-> "A"], [id |-> "caseA1", uri |-> "A"],
    [id |-> "fileB", uri |-> "B"], [id |-> "nouri", uri |-> NoUri] }

\* The include lists tried: none, the empty list, and lists over Items.
IncludeLists ==
  { NoInclude, <<>>,
    << [id |-> "fileA", uri |-> "A"] >>,
    << [id |-> "caseA1", uri |-> "A"], [id |-> "fileB", uri |-> "B"] >>,
    << [id |-> "fileA", uri |-> "A"], [id |-> "caseA1", uri |-> "A"],
       [id |-> "nouri", uri |-> NoUri] >> }

VARIABLES
  \* ---- continuous run scheduler (createRunHandler)
  req,                \* the TestRunRequest the handler was called with
  handlerCalled,      \* the run handler has been invoked with req
  listenerRegistered, \* the fileChangedEmitter listener is registered
  queuedFiles,        \* Set<string>, in insertion order
  debounced,          \* handle of the last timer created, or Undefined
  timers,             \* handles of the timers that are pending
  cancelled,          \* cancellation has been requested on the token
  issued,             \* the requests passed to doTestRun, in order
  log,                \* history: qualifying notifications and timer expiries
  \* ---- debug flow (AngularTestRunner.debug)
  launchConfigs,      \* names of the workspace's launch configurations
  dbgPc,              \* position of debug(): idle, prepareArgs, returned, threw*
  listening,          \* the wait server is listening
  ready,              \* the ready flag of createWaitServer
  onReady,            \* sockets with a listener on the onReady emitter, in order
  endCalls,           \* per accepted socket, the number of socket.end() calls
  spawned,            \* the subprocess has been spawned
  atSpawn,            \* history: what was set up when spawn was called
  exited,             \* the exited flag
  factoryRegistered,  \* the tracker factory is registered
  sessionListener,    \* the onDidStartDebugSession listener is registered
  rootSession,        \* the recorded root session, or NoSession
  stopRequests,       \* targets of the stopDebugging calls, in order
  sessions,           \* the debug sessions created: name, parentSession, type
  announced,          \* sessions whose start event has been fired
  trackerCalls,       \* sessions createDebugAdapterTracker was called for
  trackers,           \* sessions that got a tracker
  initRequestId,      \* per session, the tracker's initRequestId
  received,           \* history: per session, the requests its tracker saw
  answered,           \* per session, the seq of the requests answered so far
  readySignals,       \* history: the messages that made a tracker call ready()
  startedLog,         \* history: sessions the start listener was called with
  \* ---- argument vector (AngularTestRunner.prepareArgs)
  itemData,           \* the data of the test items: kind, parent, name, path
  baseArgs,           \* the caller's base arguments
  filter,             \* the selected test items, or NoFilter
  continuousMode,     \* the runner was constructed in continuous mode
  runProfileKind,     \* the kind of the run profile
  karmaFiles,         \* paths findFiles gives for the runner config file
  content,            \* what readFile gives for the config file
  argsPc,             \* position of prepareArgs()
  configName,         \* the value of getConfigName()
  reporters,          \* the value of getReporters()
  args,               \* the argument vector returned
  \* ---- test runs (doTestRun)
  inProgress,         \* the issued requests whose doTestRun has not returned
  runner              \* the issued request whose runner was made last, or 0

schedVars ==
  << req, handlerCalled, listenerRegistered, queuedFiles, debounced, timers,
     cancelled, issued, log >>

gateVars == << listening, ready, onReady, endCalls >>

dbgVars ==
  << launchConfigs, dbgPc, listening, ready, onReady, endCalls, spawned,
     atSpawn, exited, factoryRegistered, sessionListener, rootSession,
     stopRequests, sessions, announced, trackerCalls, trackers, initRequestId,
     received, answered, readySignals, startedLog >>

argVars ==
  << itemData, baseArgs, filter, continuousMode, runProfileKind, karmaFiles,
     content, argsPc, configName, reporters, args >>

runVars == << inProgress, runner >>

vars == << schedVars, dbgVars, argVars, runVars >>

\* ------------------------------------------------------------ sequences
Range(s) == { s[i] : i \in 1..Len(s) }

Last(s) == s[Len(s)]

\* Set.prototype.add on an insertion-ordered set
SetAdd(s, x) == IF x \in Range(s) THEN s ELSE Append(s, x)

\* Set.prototype.delete on an insertion-ordered set
SetDelete(s, x) == SelectSeq(s, LAMBDA y : y # x)

\* ============================================================ scheduler
\* getWorkspaceFolderForTestFile: every watched file is a test file under src/.
TestFiles == Files

\* The file node of the test tree for a uri.
FileItem(uri) == [id |-> IF uri = "A" THEN "fileA" ELSE "fileB", uri |-> uri]

\* getOrCreateFile, as the list of what survives the filter(f => !!f).
getOrCreateFile(uri) == IF uri \in TestFiles THEN << FileItem(uri) >> ELSE <<>>

\* [...queuedFiles].map(getOrCreateFile).filter(f => !!f)
RECURSIVE MapFiles(_)
MapFiles(q) ==
  IF q = <<>> THEN <<>> ELSE getOrCreateFile(Head(q)) \o MapFiles(Tail(q))

\* Number of notifications in a history.
Changes(h) == Cardinality({ i \in 1..Len(h) : h[i].kind = "change" })

\* !(req.include && !req.include.some(i => i.uri?.toString() === uri.toString()))
Qualifies(uri) ==
  \/ req.include = NoInclude
  \/ \E i \in 1..Len(req.include) : req.include[i].uri = uri

\* A clearTimeout that cancels nothing.
ClearTimeoutNothing(ts, handle) == ts

\* clearTimeout(handle): no effect for undefined or an expired handle.
ClearTimeout(ts, handle) == ts \ {handle}

\* setTimeout returns a handle that is neither pending nor the one just held.
FreeHandles(ts, handle) == (1..MaxTimers) \ (ts \cup {handle})

NewHandle(ts, handle) ==
  CHOOSE t \in FreeHandles(ts, handle) :
    \A u \in FreeHandles(ts, handle) : t <= u

\* The include list the timer callback computes.
RerunInclude ==
  IF req.include # NoInclude
  THEN SelectSeq(req.include,
                 LAMBDA t : t.uri # NoUri /\ t.uri \in Range(queuedFiles))
  ELSE MapFiles(queuedFiles)

\* doTestRun(request, cancellationToken), up to its first await.
doTestRun(request) ==
  /\ issued' = Append(issued, request)
  /\ inProgress' = inProgress \cup {Len(issued) + 1}

\* The run handler: a plain request runs at once, a continuous one registers
\* the file change listener and the cancellation listener.
RunHandler ==
  /\ ~handlerCalled
  /\ handlerCalled' = TRUE
  /\ IF ~req.continuous
     THEN /\ doTestRun(req)
          /\ UNCHANGED << listenerRegistered, queuedFiles, debounced >>
     ELSE /\ listenerRegistered' = TRUE
          /\ queuedFiles' = <<>>
          /\ debounced' = Undefined
          /\ UNCHANGED << issued, inProgress >>
  /\ UNCHANGED << req, timers, cancelled, log >>
  /\ UNCHANGED << dbgVars, argVars, runner >>

\* A listener that adds the file whether or not it was removed.
OnFileChangedNoDelete(uri, removed) ==
  /\ IF ~Qualifies(uri)
     THEN /\ timers' = ClearTimeout(timers, debounced)
          /\ UNCHANGED << queuedFiles, debounced, log >>
     ELSE /\ Changes(log) < MaxLog
          /\ FreeHandles(ClearTimeout(timers, debounced), debounced) # {}
          /\ queuedFiles' = SetAdd(queuedFiles, uri)
          /\ debounced' = NewHandle(ClearTimeout(timers, debounced), debounced)
          /\ timers' = ClearTimeout(timers, debounced) \cup {debounced'}
          /\ log' = Append(log, [kind |-> "change", uri |-> uri,
                                  removed |-> removed])
  /\ UNCHANGED << req, handlerCalled, listenerRegistered, cancelled, issued,
                  inProgress >>
  /\ UNCHANGED << dbgVars, argVars, runner >>

\* The fileChangedEmitter listener of a continuous request.
OnFileChanged(uri, removed) ==
  /\ IF ~Qualifies(uri)
     THEN /\ timers' = ClearTimeout(timers, debounced)
          /\ UNCHANGED << queuedFiles, debounced, log >>
     ELSE /\ Changes(log) < MaxLog
          /\ FreeHandles(ClearTimeout(timers, debounced), debounced) # {}
          /\ queuedFiles' = IF removed THEN SetDelete(queuedFiles, uri)
                                       ELSE SetAdd(queuedFiles, uri)
          /\ debounced' = NewHandle(ClearTimeout(timers, debounced), debounced)
          /\ timers' = ClearTimeout(timers, debounced) \cup {debounced'}
          /\ log' = Append(log, [kind |-> "change", uri |-> uri,
                                  removed |-> removed])
  /\ UNCHANGED << req, handlerCalled, listenerRegistered, cancelled, issued,
                  inProgress >>
  /\ UNCHANGED << dbgVars, argVars, runner >>

\* fileChangedEmitter.fire({uri, removed}) reaches the listener while it is
\* registered.
FileChanged(uri, removed) ==
  /\ listenerRegistered
  /\ OnFileChanged(uri, removed)

\* A timer callback that leaves the queue as it is.
DebounceCallbackKeepQueue ==
  /\ queuedFiles' = queuedFiles
  /\ doTestRun([include |-> RerunInclude, exclude |-> req.exclude,
                profile |-> req.profile, continuous |-> TRUE])
  /\ log' = Append(log, [kind |-> "fire", uri |-> NoUri, removed |-> FALSE])

\* The callback of the debounce timer.
DebounceCallback ==
  /\ queuedFiles' = <<>>
  /\ doTestRun([include |-> RerunInclude, exclude |-> req.exclude,
                profile |-> req.profile, continuous |-> TRUE])
  /\ log' = Append(log, [kind |-> "fire", uri |-> NoUri, removed |-> FALSE])

\* A pending timer expires.
TimerFire(t) ==
  /\ t \in timers
  /\ Len(issued) < MaxRuns
  /\ timers' = timers \ {t}
  /\ DebounceCallback
  /\ UNCHANGED << req, handlerCalled, listenerRegistered, debounced, cancelled >>
  /\ UNCHANGED << dbgVars, argVars, runner >>

\* A cancellation handler that leaves the listener registered.
OnCancellationRequestedKeepListener ==
  /\ handlerCalled
  /\ req.continuous
  /\ ~cancelled
  /\ cancelled' = TRUE
  /\ timers' = ClearTimeout(timers, debounced)
  /\ UNCHANGED << req, handlerCalled, listenerRegistered, queuedFiles,
                  debounced, issued, log, inProgress >>
  /\ UNCHANGED << dbgVars, argVars, runner >>

\* cancellationToken.onCancellationRequested of a continuous request.
OnCancellationRequested ==
  /\ handlerCalled
  /\ req.continuous
  /\ ~cancelled
  /\ cancelled' = TRUE
  /\ timers' = ClearTimeout(timers, debounced)
  /\ listenerRegistered' = FALSE
  /\ UNCHANGED << req, handlerCalled, queuedFiles, debounced, issued, log,
                  inProgress >>
  /\ UNCHANGED << dbgVars, argVars, runner >>

\* The exclude list and run profile a request can carry: none excluded under
\* the run profile, or a case excluded under the coverage profile.
Excludes ==
  { [exclude |-> <<>>, profile |-> "Run"],
    [exclude |-> << [id |-> "caseA1", uri |-> "A"] >>, profile |-> "Coverage"] }

Requests ==
  { [include |-> i, exclude |-> e.exclude, profile |-> e.profile,
     continuous |-> c] : i \in IncludeLists, e \in Excludes, c \in BOOLEAN }

\* The scheduler's state before the run handler is called with one of requests.
SchedInit(requests) ==
  /\ req \in requests
  /\ handlerCalled = FALSE
  /\ listenerRegistered = FALSE
  /\ queuedFiles = <<>>
  /\ debounced = Undefined
  /\ timers = {}
  /\ cancelled = FALSE
  /\ issued = <<>>
  /\ log = <<>>
  /\ inProgress = {}
  /\ runner = 0

\* ================================================================ debug
\* ---- createWaitServer
\* The connection callback of the wait server, for the next socket.
WaitServerConnectionNoEnd ==
  /\ listening
  /\ Len(endCalls) < MaxSockets
  /\ endCalls' = Append(endCalls, 0)
  /\ onReady' = IF ready THEN onReady ELSE Append(onReady, Len(endCalls) + 1)
  /\ UNCHANGED << listening, ready >>

WaitServerConnection ==
  /\ listening
  /\ Len(endCalls) < MaxSockets
  /\ IF ready
     THEN /\ endCalls' = Append(endCalls, 1)
          /\ UNCHANGED onReady
     ELSE /\ endCalls' = Append(endCalls, 0)
          /\ onReady' = Append(onReady, Len(endCalls) + 1)
  /\ UNCHANGED << listening, ready >>

\* Number of listeners the onReady emitter holds for a socket.
Listeners(sock) == Cardinality({ i \in 1..Len(onReady) : onReady[i] = sock })

\* server.ready(): set the flag and fire the emitter, whose listeners each
\* end their socket; the listeners stay registered.
ServerReady ==
  /\ ready' = TRUE
  /\ endCalls' =
       [sock \in 1..Len(endCalls) |-> endCalls[sock] + Listeners(sock)]
  /\ UNCHANGED << listening, onReady >>

\* ---- debug()
\* debug() that opens the wait server before it looks for the configuration.
DebugNoConfigCheckFirst ==
  /\ dbgPc = "idle"
  /\ listening' = TRUE
  /\ ready' = FALSE
  /\ dbgPc' = IF ATTACH_CONFIG_NAME \in launchConfigs THEN "prepareArgs"
              ELSE "threwNoConfig"
  /\ UNCHANGED << launchConfigs, onReady, endCalls, spawned, atSpawn, exited,
                  factoryRegistered, sessionListener, rootSession,
                  stopRequests, sessions, announced, trackerCalls, trackers,
                  initRequestId, received, answered, readySignals, startedLog >>
  /\ UNCHANGED << schedVars, argVars, runVars >>

\* debug(), up to the await of prepareArgs: find the launch configuration or
\* throw, then create the wait server.
Debug ==
  /\ dbgPc = "idle"
  /\ IF ATTACH_CONFIG_NAME \notin launchConfigs
     THEN /\ dbgPc' = "threwNoConfig"
          /\ UNCHANGED << listening, ready >>
     ELSE /\ listening' = TRUE
          /\ ready' = FALSE
          /\ dbgPc' = "prepareArgs"
  /\ UNCHANGED << launchConfigs, onReady, endCalls, spawned, atSpawn, exited,
                  factoryRegistered, sessionListener, rootSession,
                  stopRequests, sessions, announced, trackerCalls, trackers,
                  initRequestId, received, answered, readySignals, startedLog >>
  /\ UNCHANGED << schedVars, argVars, runVars >>

\* prepareArgs rejects (getReporters throws on a reporters literal without
\* '['): debug() rejects with it, after the wait server was created.
DebugPrepareArgsRejects ==
  /\ dbgPc = "prepareArgs"
  /\ dbgPc' = "threwPrepareArgs"
  /\ UNCHANGED << launchConfigs, listening, ready, onReady, endCalls, spawned,
                  atSpawn, exited, factoryRegistered, sessionListener,
                  rootSession, stopRequests, sessions, announced, trackerCalls,
                  trackers, initRequestId, received, answered, readySignals, startedLog >>
  /\ UNCHANGED << schedVars, argVars, runVars >>

\* debug() that never registers the tracker factory.
DebugResumeNoFactory ==
  /\ dbgPc = "prepareArgs"
  /\ spawned' = TRUE
  /\ atSpawn' = [listening |-> listening, factoryRegistered |-> factoryRegistered]
  /\ exited' = FALSE
  /\ rootSession' = NoSession
  /\ sessionListener' = TRUE
  /\ dbgPc' = "returned"
  /\ UNCHANGED << launchConfigs, listening, ready, onReady, endCalls,
                  factoryRegistered, stopRequests, sessions, announced,
                  trackerCalls, trackers, initRequestId, received, answered,
                  readySignals, startedLog >>
  /\ UNCHANGED << schedVars, argVars, runVars >>

\* debug(), from the resolution of prepareArgs to its return: spawn, then
\* register the tracker factory, the exit handler and the session listener.
DebugResume ==
  /\ dbgPc = "prepareArgs"
  /\ spawned' = TRUE
  /\ atSpawn' = [listening |-> listening, factoryRegistered |-> factoryRegistered]
  /\ factoryRegistered' = TRUE
  /\ exited' = FALSE
  /\ rootSession' = NoSession
  /\ sessionListener' = TRUE
  /\ dbgPc' = "returned"
  /\ UNCHANGED << launchConfigs, listening, ready, onReady, endCalls,
                  stopRequests, sessions, announced, trackerCalls, trackers,
                  initRequestId, received, answered, readySignals, startedLog >>
  /\ UNCHANGED << schedVars, argVars, runVars >>

\* A connection reaches the wait server.
Connect ==
  /\ WaitServerConnection
  /\ UNCHANGED << launchConfigs, dbgPc, spawned, atSpawn, exited,
                  factoryRegistered, sessionListener, rootSession,
                  stopRequests, sessions, announced, trackerCalls, trackers,
                  initRequestId, received, answered, readySignals, startedLog >>
  /\ UNCHANGED << schedVars, argVars, runVars >>

\* An exit handler that stops debugging whether or not a root was recorded.
CpExitAlwaysStop ==
  /\ spawned
  /\ ~exited
  /\ exited' = TRUE
  /\ listening' = FALSE
  /\ sessionListener' = FALSE
  /\ factoryRegistered' = FALSE
  /\ stopRequests' = Append(stopRequests, rootSession)
  /\ UNCHANGED << launchConfigs, dbgPc, ready, onReady, endCalls, spawned,
                  atSpawn, rootSession, sessions, announced, trackerCalls,
                  trackers, initRequestId, received, answered, readySignals, startedLog >>
  /\ UNCHANGED << schedVars, argVars, runVars >>

\* An exit handler that leaves the session listener registered.
CpExitKeepListener ==
  /\ spawned
  /\ ~exited
  /\ exited' = TRUE
  /\ listening' = FALSE
  /\ factoryRegistered' = FALSE
  /\ stopRequests' = IF rootSession # NoSession
                     THEN Append(stopRequests, rootSession)
                     ELSE stopRequests
  /\ UNCHANGED << launchConfigs, dbgPc, ready, onReady, endCalls, spawned,
                  atSpawn, rootSession, sessions, announced, trackerCalls,
                  trackers, initRequestId, received, answered, readySignals,
                  startedLog, sessionListener >>
  /\ UNCHANGED << schedVars, argVars, runVars >>

\* cp.once('exit')
CpExit ==
  /\ spawned
  /\ ~exited
  /\ exited' = TRUE
  /\ listening' = FALSE
  /\ sessionListener' = FALSE
  /\ factoryRegistered' = FALSE
  /\ stopRequests' = IF rootSession # NoSession
                     THEN Append(stopRequests, rootSession)
                     ELSE stopRequests
  /\ UNCHANGED << launchConfigs, dbgPc, ready, onReady, endCalls, spawned,
                  atSpawn, rootSession, sessions, announced, trackerCalls,
                  trackers, initRequestId, received, answered, readySignals, startedLog >>
  /\ UNCHANGED << schedVars, argVars, runVars >>

\* ---- sessions and trackers
SessionNames == {ATTACH_CONFIG_NAME, "Other"}

\* Sessions of other debug types never reach the factory; the sessions
\* modelled are those of the type the factory is registered for.
SessionTypes == {DEBUG_TYPE}

\* A tracker factory that accepts every session that has a parent.
createDebugAdapterTrackerAnyParent(session) ==
  ~(session.parentSession = NoSession)

\* createDebugAdapterTracker(session): whether it returns a tracker.
createDebugAdapterTracker(session) ==
  ~(session.parentSession = NoSession \/ session.parentSession # rootSession)

\* The debugging service creates a session; a registered factory is asked for
\* a tracker when the session has the type it was registered for.
NewSession(name, parent, type) ==
  /\ LET session == [name |-> name, parentSession |-> parent, type |-> type]
         id == Len(sessions) + 1
         asked == factoryRegistered /\ type = DEBUG_TYPE
     IN  /\ sessions' = Append(sessions, session)
         /\ trackerCalls' = IF asked THEN trackerCalls \cup {id} ELSE trackerCalls
         /\ trackers' = IF asked /\ createDebugAdapterTracker(session)
                        THEN trackers \cup {id} ELSE trackers
  /\ initRequestId' = Append(initRequestId, Undefined)
  /\ received' = Append(received, <<>>)
  /\ answered' = Append(answered, {})
  /\ UNCHANGED << launchConfigs, dbgPc, listening, ready, onReady, endCalls,
                  spawned, atSpawn, exited, factoryRegistered, sessionListener,
                  rootSession, stopRequests, announced, readySignals,
                  startedLog >>
  /\ UNCHANGED << schedVars, argVars, runVars >>

\* A session listener that records every session of the configured name.
OnDidStartDebugSessionReplace(s) ==
  /\ startedLog' = Append(startedLog, s)
  /\ IF sessions[s].name = ATTACH_CONFIG_NAME
     THEN IF exited
          THEN /\ stopRequests' = Append(stopRequests, rootSession)
               /\ UNCHANGED rootSession
          ELSE /\ rootSession' = s
               /\ UNCHANGED stopRequests
     ELSE UNCHANGED << rootSession, stopRequests >>

\* The onDidStartDebugSession listener.
OnDidStartDebugSession(s) ==
  /\ startedLog' = Append(startedLog, s)
  /\ IF sessions[s].name = ATTACH_CONFIG_NAME /\ rootSession = NoSession
     THEN IF exited
          THEN /\ stopRequests' = Append(stopRequests, rootSession)
               /\ UNCHANGED rootSession
          ELSE /\ rootSession' = s
               /\ UNCHANGED stopRequests
     ELSE UNCHANGED << rootSession, stopRequests >>

\* The debugging service announces that a session has started.
DidStartDebugSession(s) ==
  /\ s \in (1..Len(sessions)) \ announced
  /\ announced' = announced \cup {s}
  /\ IF sessionListener
     THEN OnDidStartDebugSession(s)
     ELSE UNCHANGED << startedLog, rootSession, stopRequests >>
  /\ UNCHANGED << launchConfigs, dbgPc, listening, ready, onReady, endCalls,
                  spawned, atSpawn, exited, factoryRegistered, sessionListener,
                  sessions, trackerCalls, trackers, initRequestId, received, answered,
                  readySignals >>
  /\ UNCHANGED << schedVars, argVars, runVars >>

\* ---- debug adapter messages
Commands == {"initialize", "launch", "attach"}

\* Messages the adapter of session s can send: an event, or the response to
\* a request it has received and not answered yet.
SentMessages(s) ==
  [type : {"response"}, request_seq : (1..Len(received[s])) \ answered[s]]
    \cup [type : {"event"}, request_seq : {Undefined}]

\* A tracker that takes the seq of every launch or attach request.
onWillReceiveMessageOverwrite(s, message) ==
  initRequestId' =
    IF message.command = "launch" \/ message.command = "attach"
    THEN [initRequestId EXCEPT ![s] = message.seq]
    ELSE initRequestId

\* onWillReceiveMessage of the tracker of session s.
onWillReceiveMessage(s, message) ==
  initRequestId' =
    IF initRequestId[s] # Undefined
    THEN initRequestId
    ELSE IF message.command = "launch" \/ message.command = "attach"
         THEN [initRequestId EXCEPT ![s] = message.seq]
         ELSE initRequestId

\* Number of requests the trackers have seen.
RECURSIVE TotalLen(_)
TotalLen(logs) ==
  IF logs = <<>> THEN 0 ELSE Len(Head(logs)) + TotalLen(Tail(logs))

\* The host sends its next request to the adapter of a tracked session.
WillReceiveMessage(s, command) ==
  /\ s \in trackers
  /\ TotalLen(received) < MaxMsgs
  /\ LET message == [type |-> "request", command |-> command,
                     seq |-> Len(received[s]) + 1]
     IN  /\ onWillReceiveMessage(s, message)
         /\ received' = [received EXCEPT ![s] = Append(@, message)]
  /\ UNCHANGED << launchConfigs, dbgPc, listening, ready, onReady, endCalls,
                  spawned, atSpawn, exited, factoryRegistered, sessionListener,
                  rootSession, stopRequests, sessions, announced, trackerCalls,
                  trackers, answered, readySignals, startedLog >>
  /\ UNCHANGED << schedVars, argVars, runVars >>

\* A tracker that does not look at the type of the message.
onDidSendMessageAnyType(s, message) ==
  IF message.request_seq = initRequestId[s]
  THEN /\ ServerReady
       /\ readySignals' = readySignals \cup {[session |-> s, message |-> message]}
  ELSE UNCHANGED << listening, ready, onReady, endCalls, readySignals >>

\* onDidSendMessage of the tracker of session s.
onDidSendMessage(s, message) ==
  IF message.type = "response" /\ message.request_seq = initRequestId[s]
  THEN /\ ServerReady
       /\ readySignals' = readySignals \cup {[session |-> s, message |-> message]}
  ELSE UNCHANGED << listening, ready, onReady, endCalls, readySignals >>

\* The adapter of a tracked session sends a message to the host.
DidSendMessage(s, message) ==
  /\ s \in trackers
  /\ onDidSendMessage(s, message)
  /\ answered' = IF message.type = "response"
                 THEN [answered EXCEPT ![s] = @ \cup {message.request_seq}]
                 ELSE answered
  /\ UNCHANGED << launchConfigs, dbgPc, spawned, atSpawn, exited,
                  factoryRegistered, sessionListener, rootSession,
                  stopRequests, sessions, announced, trackerCalls, trackers,
                  initRequestId, received, startedLog >>
  /\ UNCHANGED << schedVars, argVars, runVars >>

\* The debug flow's state before debug() is called, the workspace holding one
\* of the given sets of launch configurations.
DebugInit(configs) ==
  /\ launchConfigs \in configs
  /\ dbgPc = "idle"
  /\ listening = FALSE
  /\ ready = FALSE
  /\ onReady = <<>>
  /\ endCalls = <<>>
  /\ spawned = FALSE
  /\ atSpawn = [listening |-> FALSE, factoryRegistered |-> FALSE]
  /\ exited = FALSE
  /\ factoryRegistered = FALSE
  /\ sessionListener = FALSE
  /\ rootSession = NoSession
  /\ stopRequests = <<>>
  /\ sessions = <<>>
  /\ announced = {}
  /\ trackerCalls = {}
  /\ trackers = {}
  /\ initRequestId = <<>>
  /\ received = <<>>
  /\ answered = <<>>
  /\ readySignals = {}
  /\ startedLog = <<>>

\* ====================================================== argument vector
\* A string is the sequence of its pieces: a fixed literal of the source is
\* one piece, any other text is one piece per character.  "" is <<>>.
\* ---- String.prototype and Array.prototype functions
\* s.indexOf(piece, from): the first position from `from` on, or 0 for -1.
IndexOf(s, piece, from) ==
  IF \E i \in from..Len(s) : s[i] = piece
  THEN CHOOSE i \in from..Len(s) :
         s[i] = piece /\ \A j \in from..(i - 1) : s[j] # piece
  ELSE 0

\* s.replace(piece, ''): the first occurrence is removed.
RemoveFirst(s, piece) ==
  IF IndexOf(s, piece, 1) = 0 THEN s
  ELSE SubSeq(s, 1, IndexOf(s, piece, 1) - 1)
         \o SubSeq(s, IndexOf(s, piece, 1) + 1, Len(s))

\* s.trim()
RECURSIVE Trim(_)
Trim(s) ==
  IF s = <<>> THEN s
  ELSE IF Head(s) = " " THEN Trim(Tail(s))
       ELSE IF Last(s) = " " THEN Trim(SubSeq(s, 1, Len(s) - 1))
            ELSE s

\* s.split(', '), the separator being the two characters "," and " ".
RECURSIVE SplitCommaSpace(_, _)
SplitCommaSpace(s, from) ==
  IF \E i \in from..(Len(s) - 1) : s[i] = "," /\ s[i + 1] = " "
  THEN LET i == CHOOSE k \in from..(Len(s) - 1) :
                  /\ s[k] = "," /\ s[k + 1] = " "
                  /\ \A j \in from..(k - 1) : ~(s[j] = "," /\ s[j + 1] = " ")
       IN  << SubSeq(s, from, i - 1) >> \o SplitCommaSpace(s, i + 2)
  ELSE << SubSeq(s, from, Len(s)) >>

\* list.join(sep)
RECURSIVE Join(_, _)
Join(list, sep) ==
  IF list = <<>> THEN <<>>
  ELSE IF Len(list) = 1 THEN Head(list)
       ELSE Head(list) \o sep \o Join(Tail(list), sep)

\* s.replace(/\\/g, '/')
ReplaceBackslashes(s) == [i \in 1..Len(s) |-> IF s[i] = "\\" THEN "/" ELSE s[i]]

\* ---- escapeRe
\* The characters of the class [.*+\-?^${}()|[\]\\].
MetaChars ==
  { ".", "*", "+", "-", "?", "^", "$", "{", "}", "(", ")", "|", "[", "]", "\\" }

\* An escapeRe whose class lacks the dot.
RECURSIVE escapeReNoDot(_)
escapeReNoDot(s) ==
  IF s = <<>> THEN <<>>
  ELSE (IF Head(s) \in MetaChars \ {"."} THEN << "\\", Head(s) >>
        ELSE << Head(s) >>) \o escapeReNoDot(Tail(s))

\* s.replace(/[.*+\-?^${}()|[\]\\]/g, '\\$&')
RECURSIVE escapeRe(_)
escapeRe(s) ==
  IF s = <<>> THEN <<>>
  ELSE (IF Head(s) \in MetaChars THEN << "\\", Head(s) >> ELSE << Head(s) >>)
         \o escapeRe(Tail(s))

\* ---- the runner config file
NoContent == << "undefined" >>    \* readFile returned undefined
NoValue == << "undefined" >>      \* undefined, where a string is expected
Threw == << "TypeError" >>        \* the call raised instead of returning

\* findFiles("karma.conf.ts"), then findFiles("karma.conf.js") when the first
\* gave nothing: the files of the first pattern that has any.
FoundFiles ==
  IF \E i \in 1..Len(karmaFiles) : Last(karmaFiles[i]) = "karma.conf.ts"
  THEN SelectSeq(karmaFiles, LAMBDA f : Last(f) = "karma.conf.ts")
  ELSE SelectSeq(karmaFiles, LAMBDA f : Last(f) = "karma.conf.js")

\* getConfigName(): the flag naming the last path segment of the first file.
getConfigName ==
  IF FoundFiles = <<>> THEN <<>>
  ELSE << "--karma-config=", Last(FoundFiles[1]) >>

\* content.slice(startIndex, endIndex) of getReporters, endIndex being -1
\* when there is no "]" from startIndex on.
ArrString ==
  LET startIndex == IndexOf(content, "reporters: ", 1)
      endIndex == IndexOf(content, "]", startIndex)
  IN  SubSeq(content, startIndex,
             IF endIndex = 0 THEN Len(content) - 1 ELSE endIndex - 1)

\* arrString.split('[')[1]: what stands between the first and the second
\* "[", or undefined without a "[".
ReportersString ==
  LET open == IndexOf(ArrString, "[", 1)
      next == IndexOf(ArrString, "[", open + 1)
  IN  IF open = 0 THEN NoValue
      ELSE SubSeq(ArrString, open + 1,
                  IF next = 0 THEN Len(ArrString) ELSE next - 1)

\* rep => rep.replace("'", '').replace("'", '').trim()
NoQuotes(rep) == Trim(RemoveFirst(RemoveFirst(rep, "'"), "'"))

\* getReporters(): the value returned, or Threw for the TypeError of
\* undefined.split.
getReporters ==
  IF FoundFiles = <<>> THEN <<>>
  ELSE IF content = NoContent \/ content = <<>> THEN <<>>
  ELSE IF IndexOf(content, "reporters: ", 1) = 0 THEN <<>>
  ELSE IF ReportersString = NoValue THEN Threw
  ELSE << "--reporters=" >>
         \o Join([i \in 1..Len(SplitCommaSpace(ReportersString, 1)) |->
                    NoQuotes(SplitCommaSpace(ReportersString, 1)[i])], << "," >>)

\* ---- the selection
NoItem == "undefined"             \* test.parent === undefined
NoFilter == << "undefined" >>     \* filter === undefined

\* The items test.parent, test.parent.parent, ... that are test files.
RECURSIVE ParentFiles(_)
ParentFiles(p) ==
  IF p = NoItem THEN <<>>
  ELSE (IF itemData[p].kind = "file" THEN << p >> ELSE <<>>)
         \o ParentFiles(itemData[p].parent)

\* An addTestFileRunPath that pushes to a list instead of adding to a set.
addTestFileRunPathPush(runPaths, data) ==
  Append(runPaths, ReplaceBackslashes(data.relPath))

\* addTestFileRunPath: runPaths.add(path.relative(...).replace(/\\/g, '/'))
addTestFileRunPath(runPaths, data) ==
  SetAdd(runPaths, ReplaceBackslashes(data.relPath))

RECURSIVE AddParentFiles(_, _)
AddParentFiles(runPaths, files) ==
  IF files = <<>> THEN runPaths
  ELSE AddParentFiles(addTestFileRunPath(runPaths, itemData[Head(files)]),
                      Tail(files))

\* An alternative that ends a suite's name like a case's, without the blank.
GrepAlternativeNoBlank(data) == escapeRe(data.fullName) \o << "$" >>

\* escapeRe(data.fullName) + (data instanceof TestCase ? '$' : ' ')
GrepAlternative(data) ==
  escapeRe(data.fullName) \o (IF data.kind = "case" THEN << "$" >> ELSE << " " >>)

\* grepRe after the loop over the selection.
RECURSIVE GrepRe(_)
GrepRe(f) ==
  IF f = <<>> THEN <<>>
  ELSE (IF itemData[Head(f)].kind \in {"case", "suite"}
        THEN << GrepAlternative(itemData[Head(f)]) >> ELSE <<>>)
         \o GrepRe(Tail(f))

\* runPaths after the loop over the selection.
RECURSIVE RunPaths(_, _)
RunPaths(f, runPaths) ==
  IF f = <<>> THEN runPaths
  ELSE RunPaths(Tail(f),
         IF itemData[Head(f)].kind \in {"case", "suite"}
         THEN AddParentFiles(runPaths, ParentFiles(itemData[Head(f)].parent))
         ELSE IF itemData[Head(f)].kind = "file"
              THEN addTestFileRunPath(runPaths, itemData[Head(f)])
              ELSE runPaths)

\* A push of the grep flag that does not look at grepRe.length.
GrepArgsAlways(grepRe) ==
  << << "--grep" >>, << "/^(" >> \o Join(grepRe, << "|" >>) \o << ")/" >> >>

\* if (grepRe.length) args.push('--grep', `/^(${grepRe.join('|')})/`)
GrepArgs(grepRe) ==
  IF Len(grepRe) > 0
  THEN << << "--grep" >>, << "/^(" >> \o Join(grepRe, << "|" >>) \o << ")/" >> >>
  ELSE <<>>

\* [...runPaths].flatMap(p => ['--run', p])
RECURSIVE RunArgs(_)
RunArgs(runPaths) ==
  IF runPaths = <<>> THEN <<>>
  ELSE << << "--run" >>, Head(runPaths) >> \o RunArgs(Tail(runPaths))

\* ---- prepareArgs
getDefaultArgs == << << "npm" >>, << "test" >> >>

\* Mode flags that ask for a watching run whatever the mode.
ModeArgsAlwaysWatch ==
  << << "--watch" >>, << "--browsers=ChromeHeadless" >>,
     IF runProfileKind = "Coverage" THEN << "--code-coverage" >> ELSE NoValue >>

\* The last three elements of the array literal of prepareArgs.
ModeArgs ==
  << IF continuousMode THEN << "--watch" >> ELSE << "--no-watch" >>,
     << "--browsers=ChromeHeadless" >>,
     IF runProfileKind = "Coverage" THEN << "--code-coverage" >> ELSE NoValue >>

\* A test that lets every element through.
TruthyAnything(x) == x # NoValue

\* !!x for a string or undefined
Truthy(x) == x # <<>> /\ x # NoValue

\* The value prepareArgs returns once getConfigName and getReporters have.
prepareArgs ==
  LET unfiltered ==
        getDefaultArgs \o << << "--" >> >> \o baseArgs
          \o << configName, reporters >> \o ModeArgs
      filtered == SelectSeq(unfiltered, Truthy)
  IN  IF filter = NoFilter THEN filtered
      ELSE filtered \o GrepArgs(GrepRe(filter))
             \o RunArgs(RunPaths(filter, <<>>))

\* prepareArgs(), up to the end of getConfigName().
PrepareArgs ==
  /\ argsPc = "idle"
  /\ configName' = getConfigName
  /\ argsPc' = "getReporters"
  /\ UNCHANGED << itemData, baseArgs, filter, continuousMode, runProfileKind,
                  karmaFiles, content, reporters, args >>
  /\ UNCHANGED << schedVars, dbgVars, runVars >>

\* prepareArgs(), from there to the end of getReporters(), which returns or
\* throws.
PrepareArgsGetReporters ==
  /\ argsPc = "getReporters"
  /\ IF getReporters = Threw
     THEN /\ argsPc' = "threw"
          /\ UNCHANGED reporters
     ELSE /\ argsPc' = "reporters"
          /\ reporters' = getReporters
  /\ UNCHANGED << itemData, baseArgs, filter, continuousMode, runProfileKind,
                  karmaFiles, content, configName, args >>
  /\ UNCHANGED << schedVars, dbgVars, runVars >>

\* prepareArgs(), from there to its return.
PrepareArgsReturn ==
  /\ argsPc = "reporters"
  /\ args' = prepareArgs
  /\ argsPc' = "returned"
  /\ UNCHANGED << itemData, baseArgs, filter, continuousMode, runProfileKind,
                  karmaFiles, content, configName, reporters >>
  /\ UNCHANGED << schedVars, dbgVars, runVars >>

\* ---- inputs of prepareArgs
\* A test tree: two files (the path of the first one with the separators of
\* Windows), suites Foo and FooBar and a case in the first file, a case of
\* the same full name in the second file, and an item without data.
ArgTree ==
  [id \in {"fileA", "fileB", "Foo", "Foo x", "FooBar", "B Foo x", "nodata"} |->
     CASE id = "fileA" ->
            [kind |-> "file", parent |-> NoItem, fullName |-> <<>>,
             relPath |-> << "src", "\\", "a.spec.ts" >>]
       [] id = "fileB" ->
            [kind |-> "file", parent |-> NoItem, fullName |-> <<>>,
             relPath |-> << "src", "/", "b.spec.ts" >>]
       [] id = "Foo" ->
            [kind |-> "suite", parent |-> "fileA",
             fullName |-> << "F", "o", "o" >>, relPath |-> <<>>]
       [] id = "Foo x" ->
            [kind |-> "case", parent |-> "Foo",
             fullName |-> << "F", "o", "o", " ", "x" >>, relPath |-> <<>>]
       [] id = "FooBar" ->
            [kind |-> "suite", parent |-> "fileA",
             fullName |-> << "F", "o", "o", "B", "a", "r" >>, relPath |-> <<>>]
       [] id = "B Foo x" ->
            [kind |-> "case", parent |-> "fileB",
             fullName |-> << "F", "o", "o", " ", "x" >>, relPath |-> <<>>]
       [] OTHER ->
            [kind |-> "none", parent |-> NoItem, fullName |-> <<>>,
             relPath |-> <<>>] ]

\* The selections over a tree: none, and the lists of up to MaxFilter
\* different items.
Selections(tree) ==
  {NoFilter} \cup
  { f \in UNION { [1..n -> DOMAIN tree] : n \in 0..MaxFilter } :
      \A i, j \in 1..Len(f) : i # j => f[i] # f[j] }

\* What findFiles gives: nothing, the .ts file, the .js file, or both.
KarmaFiles ==
  { <<>>,
    << << "w", "karma.conf.ts" >> >>,
    << << "w", "karma.conf.js" >> >>,
    << << "w", "karma.conf.js" >>, << "w", "sub", "karma.conf.ts" >> >> }

\* What readFile gives: undefined, the empty string, text without the
\* literal, well-formed literals, and literals that are not.
Contents ==
  { NoContent,
    <<>>,
    << "a", "[", "b", "]" >>,
    << "reporters: ", "[", "'", "a", "'", "]" >>,
    << "a", "reporters: ", "[", "'", "a", "'", ",", " ", "'", "b", "'", "]",
       "b" >>,
    << "reporters: ", "[", " ", "'", "a", "'", " ", "]" >>,
    << "reporters: ", "a", "]" >>,
    << "reporters: ", "a", "]", "[", "b", "]" >>,
    << "reporters: ", "[", "'", "a", "'", "," >>,
    << "reporters: " >>,
    << "[", "a", "]", "reporters: ", "b" >> }

BaseArgs == { <<>>, << <<>>, << "--include=src" >> >> }

RunProfileKinds == {"Run", "Debug", "Coverage"}

\* The states of the runner config file: no file; the .ts file with each of
\* Contents; the .js file, alone and found before a .ts file.
ConfigFiles ==
  { [karmaFiles |-> <<>>, content |-> NoContent] }
  \cup { [karmaFiles |-> << << "w", "karma.conf.ts" >> >>, content |-> c] :
           c \in Contents }
  \cup { [karmaFiles |-> k,
           content |-> << "reporters: ", "[", "'", "a", "'", "]" >>] :
           k \in KarmaFiles \ {<<>>} }

\* The inputs with the tree ArgTree.
ArgInputs ==
  { [itemData |-> ArgTree, baseArgs |-> b, filter |-> f,
     continuousMode |-> m, runProfileKind |-> k,
     karmaFiles |-> c.karmaFiles, content |-> c.content] :
      b \in BaseArgs, f \in Selections(ArgTree), m \in BOOLEAN,
      k \in RunProfileKinds, c \in ConfigFiles }

\* The characters of test names: the class of escapeRe, a letter, a blank.
NameChars == MetaChars \cup {"a", " "}

\* The names of up to MaxName characters, and the name A.B*C.
Names ==
  UNION { [1..n -> NameChars] : n \in 1..MaxName }
    \cup { << "A", ".", "B", "*", "C" >> }

\* A test tree of one file with a suite and a case of the same name in it.
GrepTree(name) ==
  [id \in {"file", "suite", "case"} |->
     CASE id = "file" ->
            [kind |-> "file", parent |-> NoItem, fullName |-> <<>>,
             relPath |-> << "src", "/", "a.spec.ts" >>]
       [] id = "suite" ->
            [kind |-> "suite", parent |-> "file", fullName |-> name,
             relPath |-> <<>>]
       [] OTHER ->
            [kind |-> "case", parent |-> "file", fullName |-> name,
             relPath |-> <<>>] ]

\* The inputs with the trees GrepTree: the suite, the case, or both selected.
GrepInputs ==
  { [itemData |-> GrepTree(n), baseArgs |-> <<>>, filter |-> f,
     continuousMode |-> FALSE, runProfileKind |-> "Run",
     karmaFiles |-> <<>>, content |-> NoContent] :
      n \in Names, f \in { << "suite" >>, << "case" >>, << "suite", "case" >> } }

\* The state before prepareArgs is called with one of inputs.
ArgsInit(inputs) ==
  /\ \E in \in inputs :
       /\ itemData = in.itemData
       /\ baseArgs = in.baseArgs
       /\ filter = in.filter
       /\ continuousMode = in.continuousMode
       /\ runProfileKind = in.runProfileKind
       /\ karmaFiles = in.karmaFiles
       /\ content = in.content
  /\ argsPc = "idle"
  /\ configName = <<>>
  /\ reporters = <<>>
  /\ args = <<>>

\* No argument vector is being built: the runner of a plain run of everything.
NoArgsCall ==
  { [itemData |-> ArgTree, baseArgs |-> <<>>, filter |-> NoFilter,
     continuousMode |-> FALSE, runProfileKind |-> "Run", karmaFiles |-> <<>>,
     content |-> NoContent] }

\* ============================================================ test runs
\* The data of the test items of Items: the two file nodes, the case of the
\* first file, and the item without uri, which has no data.
RunTree ==
  [id \in {"fileA", "caseA1", "fileB", "nouri"} |->
     CASE id = "fileA" ->
            [kind |-> "file", parent |-> NoItem, fullName |-> <<>>,
             relPath |-> << "src", "/", "a.spec.ts" >>]
       [] id = "fileB" ->
            [kind |-> "file", parent |-> NoItem, fullName |-> <<>>,
             relPath |-> << "src", "/", "b.spec.ts" >>]
       [] id = "caseA1" ->
            [kind |-> "case", parent |-> "fileA",
             fullName |-> << "A", " ", "1" >>, relPath |-> <<>>]
       [] OTHER ->
            [kind |-> "none", parent |-> NoItem, fullName |-> <<>>,
             relPath |-> <<>>] ]

\* req.include as the filter of prepareArgs.
IncludeFilter(request) ==
  IF request.include = NoInclude THEN NoFilter
  ELSE [i \in 1..Len(request.include) |-> request.include[i].id]

\* doTestRun of the i-th issued request, from its first await to the call of
\* prepareArgs in runner.run(args, req.include): the runner is constructed
\* with req.continuous and is handed the default base arguments.
RunnerRun(i) ==
  /\ i \in inProgress
  /\ i = runner + 1
  /\ runner = 0 \/ argsPc \in {"returned", "threw"}
  /\ runner' = i
  /\ baseArgs' = <<>>
  /\ filter' = IncludeFilter(issued[i])
  /\ continuousMode' = issued[i].continuous
  /\ argsPc' = "idle"
  /\ configName' = <<>>
  /\ reporters' = <<>>
  /\ args' = <<>>
  /\ UNCHANGED << itemData, runProfileKind, karmaFiles, content, inProgress >>
  /\ UNCHANGED << schedVars, dbgVars >>

\* doTestRun of the i-th issued request returns: the subprocess spawned with
\* the argument vector has ended and its output is scanned, or prepareArgs
\* threw.
RunEnds(i) ==
  /\ i \in inProgress
  /\ i <= runner
  /\ i < runner \/ argsPc \in {"returned", "threw"}
  /\ inProgress' = inProgress \ {i}
  /\ UNCHANGED runner
  /\ UNCHANGED << schedVars, dbgVars, argVars >>

\* ======================================================= specifications
\* The continuous run scheduler; no debug run is under way.
NextSched ==
  \/ RunHandler
  \/ \E uri \in Files, removed \in BOOLEAN : FileChanged(uri, removed)
  \/ \E t \in 1..MaxTimers : TimerFire(t)
  \/ OnCancellationRequested

InitSched ==
  /\ SchedInit(Requests)
  /\ DebugInit({{"Launch"}})
  /\ ArgsInit(NoArgsCall)

SpecSched == InitSched /\ [][NextSched]_vars

\* The scheduler with the event loop running every timer that stays pending.
SpecSchedLive ==
  InitSched /\ [][NextSched]_vars
    /\ WF_vars(\E t \in 1..MaxTimers : TimerFire(t))

\* One debug run in which sessions of any name and parent are created; no
\* run handler is active and nothing connects to the wait server.
NextDebug ==
  \/ Debug
  \/ DebugPrepareArgsRejects
  \/ DebugResume
  \/ CpExit
  \/ /\ Len(sessions) < MaxSessions
     /\ \E name \in SessionNames, parent \in {NoSession} \cup (1..Len(sessions)),
           type \in SessionTypes : NewSession(name, parent, type)
  \/ \E s \in 1..Len(sessions) : DidStartDebugSession(s)
  \/ \E s \in 1..Len(sessions), command \in Commands :
        WillReceiveMessage(s, command)
  \/ \E s \in 1..Len(sessions) :
        \E message \in SentMessages(s) : DidSendMessage(s, message)

InitDebug ==
  /\ SchedInit({[include |-> NoInclude, exclude |-> <<>>, profile |-> "Run",
                 continuous |-> FALSE]})
  /\ DebugInit({{"Launch", ATTACH_CONFIG_NAME}, {"Launch"}})
  /\ ArgsInit(NoArgsCall)

SpecDebug == InitDebug /\ [][NextDebug]_vars

\* The sessions of a debug run of the js-debug adapter: the session of the
\* attach configuration, then two sub-sessions of it.
GateSessions ==
  << [name |-> ATTACH_CONFIG_NAME, parentSession |-> NoSession],
     [name |-> "Other", parentSession |-> 1],
     [name |-> "Other", parentSession |-> 1] >>

\* One debug run with the sessions of GateSessions, and connections to the
\* wait server.
NextGate ==
  \/ Debug
  \/ DebugPrepareArgsRejects
  \/ DebugResume
  \/ Connect
  \/ CpExit
  \/ /\ Len(sessions) < Len(GateSessions)
     /\ NewSession(GateSessions[Len(sessions) + 1].name,
                   GateSessions[Len(sessions) + 1].parentSession, DEBUG_TYPE)
  \/ \E s \in 1..Len(sessions) : DidStartDebugSession(s)
  \/ \E s \in 1..Len(sessions), command \in Commands :
        WillReceiveMessage(s, command)
  \/ \E s \in 1..Len(sessions) :
        \E message \in SentMessages(s) : DidSendMessage(s, message)

InitGate ==
  /\ SchedInit({[include |-> NoInclude, exclude |-> <<>>, profile |-> "Run",
                 continuous |-> FALSE]})
  /\ DebugInit({{"Launch", ATTACH_CONFIG_NAME}})
  /\ ArgsInit(NoArgsCall)

SpecGate == InitGate /\ [][NextGate]_vars

\* One call of prepareArgs; no run handler is active and no debug run is under
\* way.
NextArgs ==
  \/ PrepareArgs
  \/ PrepareArgsGetReporters
  \/ PrepareArgsReturn

InitArgs ==
  /\ SchedInit({[include |-> NoInclude, exclude |-> <<>>, profile |-> "Run",
                 continuous |-> FALSE]})
  /\ DebugInit({{"Launch"}})
  /\ ArgsInit(ArgInputs \cup GrepInputs)

SpecArgs == InitArgs /\ [][NextArgs]_vars

\* The run handler of the run profile with the runs it issues, each building
\* its argument vector; the workspace has no runner config file.
RunRequests ==
  { r \in Requests :
      /\ r.profile = "Run"
      /\ r.include \in { NoInclude, << [id |-> "fileA", uri |-> "A"] >>,
                         << [id |-> "caseA1", uri |-> "A"],
                            [id |-> "fileB", uri |-> "B"] >> } }

NextRuns ==
  \/ RunHandler
  \/ \E uri \in Files, removed \in BOOLEAN : FileChanged(uri, removed)
  \/ \E t \in 1..MaxTimers : TimerFire(t)
  \/ OnCancellationRequested
  \/ \E i \in 1..MaxRuns : RunnerRun(i)
  \/ runner > 0 /\ PrepareArgs
  \/ PrepareArgsGetReporters
  \/ PrepareArgsReturn
  \/ \E i \in 1..MaxRuns : RunEnds(i)

InitRuns ==
  /\ SchedInit(RunRequests)
  /\ DebugInit({{"Launch"}})
  /\ ArgsInit({ [itemData |-> RunTree, baseArgs |-> <<>>, filter |-> NoFilter,
                 continuousMode |-> FALSE, runProfileKind |-> "Run",
                 karmaFiles |-> <<>>, content |-> NoContent] })

SpecRuns == InitRuns /\ [][NextRuns]_vars

\* =============================================================== claims
\* ---- history operators
\* The notifications since the queue was last cleared by a timer expiry.
RECURSIVE Window(_)
Window(h) ==
  IF h = <<>> THEN <<>>
  ELSE IF Last(h).kind = "fire" THEN <<>>
       ELSE Append(Window(SubSeq(h, 1, Len(h) - 1)), Last(h))

\* The net set of changed files of a sequence of notifications.
RECURSIVE NetSet(_)
NetSet(w) ==
  IF w = <<>> THEN {}
  ELSE IF Last(w).removed
       THEN NetSet(SubSeq(w, 1, Len(w) - 1)) \ {Last(w).uri}
       ELSE NetSet(SubSeq(w, 1, Len(w) - 1)) \cup {Last(w).uri}

\* The files a run request is scoped to.
Scope(request) == { request.include[i].uri : i \in 1..Len(request.include) }

Change(uri, removed) == [kind |-> "change", uri |-> uri, removed |-> removed]

\* The first session of a sequence of started sessions that has the attach
\* configuration's name.
RECURSIVE FirstNamed(_)
FirstNamed(started) ==
  IF started = <<>> THEN NoSession
  ELSE IF sessions[Head(started)].name = ATTACH_CONFIG_NAME THEN Head(started)
       ELSE FirstNamed(Tail(started))

\* The seq of the first launch or attach request of a sequence of requests.
RECURSIVE FirstInit(_)
FirstInit(requests) ==
  IF requests = <<>> THEN Undefined
  ELSE IF Head(requests).command \in {"launch", "attach"} THEN Head(requests).seq
       ELSE FirstInit(Tail(requests))

\* C1: whenever a continuous request issues a rerun, it issues exactly one,
\* no timer is left pending for the window, and the rerun is scoped to the
\* net set of the files changed since the queue was last cleared.
C1_Coalescing ==
  [][ (req.continuous /\ issued' # issued) =>
        /\ Len(issued') = Len(issued) + 1
        /\ SubSeq(issued', 1, Len(issued)) = issued
        /\ timers' = {}
        /\ Last(issued').continuous
        /\ Scope(Last(issued')) = NetSet(Window(log)) ]_vars

\* [add A, add B, remove A] in one window has produced one rerun, for B only.
C1_Witness ==
  /\ req.include = NoInclude
  /\ log = << Change("A", FALSE), Change("B", FALSE), Change("A", TRUE),
              [kind |-> "fire", uri |-> NoUri, removed |-> FALSE] >>
  /\ Len(issued) = 1
  /\ Scope(issued[1]) = {"B"}

\* C2: a connection is not ended while the gate is not ready, and once the
\* gate is ready every accepted connection has been ended, those queued
\* before and those accepted after.
C2_Gate ==
  \A sock \in 1..Len(endCalls) :
    /\ ~ready => endCalls[sock] = 0
    /\ ready => endCalls[sock] >= 1

\* One connection was queued and released by ready(), a second one arrived
\* after and was ended on arrival.
C2_Witness ==
  /\ ready
  /\ Len(endCalls) = 2
  /\ onReady = <<1>>
  /\ endCalls[1] >= 1
  /\ endCalls[2] = 1

\* C3: the queued connections are released at the one transition of the gate
\* to ready and at no other point, so that no connection is ended more than
\* once.
C3_ReleasedOnce ==
  \A sock \in 1..Len(endCalls) : endCalls[sock] <= 1

\* C4: the step that requests cancellation leaves no timer pending and the
\* listener unregistered, this stays so, and no run is issued afterwards.
C4_Cancellation ==
  [][ /\ cancelled' => (timers' = {} /\ ~listenerRegistered')
      /\ cancelled => issued' = issued ]_vars

\* Cancellation came after a rerun, while files were queued behind a timer.
C4_Witness ==
  /\ cancelled
  /\ req.include = NoInclude
  /\ issued # <<>>
  /\ queuedFiles # <<>>

\* C5: without the attach configuration, debug() has thrown and nothing was
\* spawned, opened or registered.
C5_ConfigurationNotFound ==
  (ATTACH_CONFIG_NAME \notin launchConfigs /\ dbgPc # "idle") =>
    /\ dbgPc = "threwNoConfig"
    /\ ~spawned
    /\ ~listening
    /\ ~factoryRegistered
    /\ ~sessionListener
    /\ trackerCalls = {}
    /\ trackers = {}

\* debug() has thrown for the missing configuration, and sessions were
\* started around it.
C5_Witness ==
  /\ dbgPc = "threwNoConfig"
  /\ Len(sessions) = MaxSessions
  /\ announced # {}

\* C6 as stated: at the moment of spawn the socket is listening and the
\* tracker factory is registered.
C6_SetUpBeforeSpawn ==
  spawned => (atSpawn.listening /\ atSpawn.factoryRegistered)

\* C6 amended: at the moment of spawn the socket is listening and the tracker
\* factory is not registered yet; it is registered by the end of the same
\* step, so it is in place whenever the subprocess is alive.
C6_SetUpAroundSpawn ==
  spawned =>
    /\ atSpawn.listening
    /\ ~atSpawn.factoryRegistered
    /\ ~exited => (factoryRegistered /\ listening)

\* The subprocess is alive and the factory has produced a tracker.
C6_Witness ==
  /\ spawned
  /\ ~exited
  /\ trackers # {}

\* C7: once the subprocess has exited the gate is not listening, the factory
\* and the session listener are unregistered, and the stop requests made are
\* exactly one for the recorded root session, or none without a root.
C7_OnExit ==
  exited =>
    /\ ~listening
    /\ ~factoryRegistered
    /\ ~sessionListener
    /\ stopRequests = IF rootSession # NoSession THEN << rootSession >> ELSE <<>>

\* The subprocess exited with a recorded root, which was asked to stop.
C7_Witness ==
  /\ exited
  /\ rootSession # NoSession
  /\ stopRequests = << rootSession >>

\* C8: the recorded root is the first session of the attach configuration's
\* name the listener was called with, whatever sessions started later.
C8_SingleRoot == rootSession = FirstNamed(startedLog)

\* Two sessions of the attach configuration's name started; the first is root.
C8_Witness ==
  /\ Len(startedLog) = 2
  /\ sessions[startedLog[1]].name = ATTACH_CONFIG_NAME
  /\ sessions[startedLog[2]].name = ATTACH_CONFIG_NAME
  /\ rootSession = startedLog[1]

\* C9: every tracker belongs to a session whose parent is the recorded root,
\* and the gate is ready only after a message of such a session.
C9_TrackedSubSessions ==
  /\ \A s \in trackers :
       /\ rootSession # NoSession
       /\ sessions[s].parentSession = rootSession
       /\ s # rootSession
  /\ \A r \in readySignals : r.session \in trackers
  /\ ready => readySignals # {}

\* The gate is ready, and the factory had been asked for the root session
\* itself and returned no tracker for it.
C9_Witness ==
  /\ ready
  /\ rootSession \in trackerCalls \ trackers

\* C10: initRequestId of a session is the seq of the first launch or attach
\* request its tracker saw, and ready() was only called for a response whose
\* request_seq is that seq.
C10_InitRequestId ==
  /\ \A s \in 1..Len(sessions) : initRequestId[s] = FirstInit(received[s])
  /\ \A r \in readySignals :
       /\ r.message.type = "response"
       /\ FirstInit(received[r.session]) # Undefined
       /\ r.message.request_seq = FirstInit(received[r.session])

\* A session saw a launch and then an attach request; the response to the
\* first one made the gate ready.
C10_Witness ==
  \E s \in trackers :
    /\ Len(received[s]) = 2
    /\ received[s][1].command = "launch"
    /\ received[s][2].command = "attach"
    /\ initRequestId[s] = 1
    /\ [session |-> s, message |-> [type |-> "response", request_seq |-> 1]]
         \in readySignals

\* C11: at most one debounce timer is pending at any time, and it is the one
\* created last; a timer only expires after a notification that came since
\* the expiry before it, so no window has two expiries.
C11_OneTimer ==
  /\ Cardinality(timers) <= 1
  /\ timers \subseteq {debounced}
  /\ \A i \in 1..Len(log) :
       log[i].kind = "fire" => (i > 1 /\ log[i - 1].kind = "change")

\* Three notifications came in one window, each replacing the timer of the
\* one before; one timer is pending.
C11_Witness ==
  /\ Len(Window(log)) = 3
  /\ timers = {debounced}
  /\ issued = <<>>

\* The items of an include list whose file is in a queue.
Filtered(include, q) == SelectSeq(include, LAMBDA t : t.uri \in Range(q))

\* C12: the step in which the timer fires issues exactly one request, which
\* is continuous and has the exclude list and profile of the original one;
\* its include list is the original one restricted to the queued files, or
\* without an original list one file node per queued file; the queue is
\* empty afterwards.
C12_TimerFires ==
  [][ (req.continuous /\ issued' # issued) =>
        /\ issued' = Append(issued, Last(issued'))
        /\ Last(issued').continuous
        /\ Last(issued').exclude = req.exclude
        /\ Last(issued').profile = req.profile
        /\ IF req.include # NoInclude
           THEN Last(issued').include = Filtered(req.include, queuedFiles)
           ELSE /\ Len(Last(issued').include) = Len(queuedFiles)
                /\ \A i \in 1..Len(queuedFiles) :
                     Last(issued').include[i] = FileItem(queuedFiles[i])
        /\ queuedFiles' = <<>> ]_vars

\* A request including a case of A and the file B, with an exclude list and
\* the coverage profile, has rerun for a change of B alone.
C12_Witness ==
  /\ req.continuous
  /\ Len(req.include) = 2
  /\ req.exclude # <<>>
  /\ req.profile = "Coverage"
  /\ log = << Change("B", FALSE),
              [kind |-> "fire", uri |-> NoUri, removed |-> FALSE] >>
  /\ Len(issued) = 1
  /\ issued[1].include = << [id |-> "fileB", uri |-> "B"] >>
  /\ issued[1].exclude = req.exclude
  /\ queuedFiles = <<>>

\* C20 as stated: a notification that does not qualify leaves the queue and
\* the pending timer as they were.
C20_NonQualifyingIgnored ==
  [][ \A uri \in Files, removed \in BOOLEAN :
        (~Qualifies(uri) /\ FileChanged(uri, removed)) =>
          UNCHANGED << queuedFiles, debounced, timers >> ]_vars

\* ---- argument vectors
\* Positions of an element in an argument vector.
Positions(v, x) == { i \in 1..Len(v) : v[i] = x }

\* The elements that directly follow a flag, in order.
ValuesOf(v, flag) ==
  LET at == SelectSeq([i \in 1..Len(v) |-> i], LAMBDA i : v[i] = flag)
  IN  [k \in 1..Len(at) |-> IF at[k] < Len(v) THEN v[at[k] + 1] ELSE NoValue]

\* A sequence has no element twice.
Distinct(list) == \A i, j \in 1..Len(list) : i # j => list[i] # list[j]

\* ---- the pattern of a grep value, as RegExp reads it
\* The atoms of a pattern: an escaped character stands for itself, the dot
\* for any character, "$" for the end, "|" separates alternatives and "*"
\* repeats the atom before it; any other character stands for itself.
RECURSIVE Atoms(_)
Atoms(s) ==
  IF s = <<>> THEN <<>>
  ELSE IF Head(s) = "\\" /\ Len(s) >= 2
       THEN << [kind |-> "char", ch |-> s[2]] >> \o Atoms(SubSeq(s, 3, Len(s)))
       ELSE << [kind |-> CASE Head(s) = "." -> "any"
                           [] Head(s) = "$" -> "end"
                           [] Head(s) = "|" -> "bar"
                           [] Head(s) = "*" -> "star"
                           [] OTHER -> "char",
                 ch |-> Head(s)] >> \o Atoms(Tail(s))

\* A sequence of atoms, cut at the bars.
RECURSIVE SplitBars(_)
SplitBars(atoms) ==
  IF \E i \in 1..Len(atoms) : atoms[i].kind = "bar"
  THEN LET i == CHOOSE k \in 1..Len(atoms) :
                  /\ atoms[k].kind = "bar"
                  /\ \A j \in 1..(k - 1) : atoms[j].kind # "bar"
       IN  << SubSeq(atoms, 1, i - 1) >>
             \o SplitBars(SubSeq(atoms, i + 1, Len(atoms)))
  ELSE << atoms >>

\* The alternatives between "/^(" and ")/" of a grep value.
Alternatives(value) == SplitBars(Atoms(SubSeq(value, 2, Len(value) - 1)))

\* An atom matches a character.
Fits(atom, ch) == atom.kind = "any" \/ (atom.kind = "char" /\ atom.ch = ch)

\* The atoms match the name from position i on.
RECURSIVE MatchFrom(_, _, _)
MatchFrom(atoms, name, i) ==
  IF atoms = <<>> THEN TRUE
  ELSE IF Head(atoms).kind = "star" THEN FALSE
  ELSE IF Head(atoms).kind = "end"
       THEN i = Len(name) + 1 /\ MatchFrom(Tail(atoms), name, i)
  ELSE IF Len(atoms) >= 2 /\ atoms[2].kind = "star"
       THEN \/ MatchFrom(SubSeq(atoms, 3, Len(atoms)), name, i)
            \/ /\ i <= Len(name)
               /\ Fits(Head(atoms), name[i])
               /\ MatchFrom(atoms, name, i + 1)
  ELSE /\ i <= Len(name)
       /\ Fits(Head(atoms), name[i])
       /\ MatchFrom(Tail(atoms), name, i + 1)

\* /^(...)/.test(name)
RegExpTest(value, name) ==
  \E k \in 1..Len(Alternatives(value)) :
    MatchFrom(Alternatives(value)[k], name, 1)

\* C13 as stated: a returned argument vector has no empty string, has
\* '--grep' and '--run' at most once each, and the values of both are free
\* of duplicates.
C13_FilterFlagsOnce ==
  argsPc = "returned" =>
    /\ \A i \in 1..Len(args) : args[i] # <<>>
    /\ Cardinality(Positions(args, << "--grep" >>)) <= 1
    /\ Cardinality(Positions(args, << "--run" >>)) <= 1
    /\ Distinct(ValuesOf(args, << "--run" >>))
    /\ \A i \in Positions(args, << "--grep" >>) :
         Distinct(Alternatives(args[i + 1]))

\* C13 amended: a returned argument vector has no empty string and no
\* undefined element, has '--grep' at most once, directly followed by its
\* value, and has '--run' once per path, the paths being free of duplicates.
C13_FilterFlagsPerPath ==
  argsPc = "returned" =>
    /\ \A i \in 1..Len(args) : args[i] # <<>> /\ args[i] # NoValue
    /\ Cardinality(Positions(args, << "--grep" >>)) <= 1
    /\ \A i \in Positions(args, << "--grep" >>) :
         i < Len(args) /\ Head(args[i + 1]) = "/^("
    /\ \A i \in Positions(args, << "--run" >>) : i < Len(args)
    /\ Distinct(ValuesOf(args, << "--run" >>))

\* Base arguments with an empty string, no config file, and a selection over
\* two files: the vector has one '--grep' and two '--run'.
C13_Witness ==
  /\ argsPc = "returned"
  /\ baseArgs # <<>>
  /\ karmaFiles = <<>>
  /\ filter = << "Foo x", "B Foo x" >>
  /\ Cardinality(Positions(args, << "--grep" >>)) = 1
  /\ Cardinality(Positions(args, << "--run" >>)) = 2

\* The file a test item belongs to: itself, or its nearest ancestor that is
\* a file; NoItem without one.
RECURSIVE OwningFile(_)
OwningFile(id) ==
  IF id = NoItem THEN NoItem
  ELSE IF itemData[id].kind = "file" THEN id
       ELSE IF itemData[id].kind = "none" THEN NoItem
            ELSE OwningFile(itemData[id].parent)

\* The owning files of a selection, each once, in the order first met.
RECURSIVE OwningFiles(_)
OwningFiles(f) ==
  IF f = <<>> THEN <<>>
  ELSE LET before == OwningFiles(SubSeq(f, 1, Len(f) - 1))
           file == OwningFile(Last(f))
       IN  IF file = NoItem \/ file \in Range(before) THEN before
           ELSE Append(before, file)

\* The path of a file as the runner takes it: relative, with forward slashes.
RunPath(file) ==
  [i \in 1..Len(itemData[file].relPath) |->
     IF itemData[file].relPath[i] = "\\" THEN "/"
     ELSE itemData[file].relPath[i]]

\* C14: the '--run' pairs of a returned argument vector are the paths of the
\* owning files of the selection, one pair per file, in the order in which
\* the files are first met in the selection.
C14_OneRunPerFile ==
  (argsPc = "returned" /\ filter # NoFilter) =>
    /\ Len(ValuesOf(args, << "--run" >>)) = Len(OwningFiles(filter))
    /\ \A k \in 1..Len(OwningFiles(filter)) :
         ValuesOf(args, << "--run" >>)[k] = RunPath(OwningFiles(filter)[k])

\* A case and then the suite around it, both of the first file, are
\* selected: one pair, for that file.
C14_Witness ==
  /\ argsPc = "returned"
  /\ filter = << "Foo x", "Foo" >>
  /\ ValuesOf(args, << "--run" >>) = << << "src", "/", "a.spec.ts" >> >>

\* C15: without a selection, or with an empty one, a returned argument
\* vector has neither '--grep' nor '--run'.
C15_EmptySelection ==
  (argsPc = "returned" /\ (filter = NoFilter \/ filter = <<>>)) =>
    /\ Positions(args, << "--grep" >>) = {}
    /\ Positions(args, << "--run" >>) = {}
    /\ \A i \in 1..Len(args) : Head(args[i]) # "/^("

\* A coverage run with the empty list as selection returned its vector.
C15_Witness ==
  /\ argsPc = "returned"
  /\ filter = <<>>
  /\ runProfileKind = "Coverage"
  /\ Last(args) = << "--code-coverage" >>

\* The base arguments that are not the empty string.
GivenBaseArgs == SelectSeq(baseArgs, LAMBDA x : x # <<>>)

\* C19: a returned argument vector has exactly one of '--watch' and
\* '--no-watch', '--watch' exactly in continuous mode, and '--code-coverage'
\* exactly under the Coverage profile; these flags stand after '--' and the
\* base arguments and before every '--grep' and '--run'.
C19_ModeFlags ==
  argsPc = "returned" =>
    LET watch == Positions(args, << "--watch" >>)
        noWatch == Positions(args, << "--no-watch" >>)
        coverage == Positions(args, << "--code-coverage" >>)
        filters == Positions(args, << "--grep" >>)
                     \cup Positions(args, << "--run" >>)
    IN  /\ Cardinality(watch) + Cardinality(noWatch) = 1
        /\ (watch # {}) <=> continuousMode
        /\ Cardinality(coverage) = IF runProfileKind = "Coverage" THEN 1 ELSE 0
        /\ args[3] = << "--" >>
        /\ SubSeq(args, 4, 3 + Len(GivenBaseArgs)) = GivenBaseArgs
        /\ \A i \in watch \cup noWatch \cup coverage :
             /\ i > 3 + Len(GivenBaseArgs)
             /\ \A j \in filters : i < j

\* A continuous coverage run with base arguments and a selected case.
C19_Witness ==
  /\ argsPc = "returned"
  /\ continuousMode
  /\ runProfileKind = "Coverage"
  /\ baseArgs # <<>>
  /\ filter = << "Foo x" >>
  /\ Positions(args, << "--grep" >>) # {}

\* The config file holds the literal directly followed by "[" and closed by
\* a "]" further on.
WellFormed ==
  /\ FoundFiles # <<>>
  /\ content # NoContent
  /\ LET at == IndexOf(content, "reporters: ", 1)
     IN  /\ at > 0
         /\ at < Len(content)
         /\ content[at + 1] = "["
         /\ IndexOf(content, "]", at) > 0

\* C18 as stated: getReporters never raises, and without a well-formed
\* literal the value it returns is the empty flag.
C18_ReportersNeverFail ==
  /\ argsPc # "threw"
  /\ (argsPc \in {"reporters", "returned"} /\ ~WellFormed) => reporters = <<>>

\* ---- test names a grep value is tried on
\* What follows a suite's name and a blank in the name of one of its tests.
Rests == { <<>>, << "x" >>, << "x", " ", "a" >> }

\* What a longer name adds to a name.
Extensions ==
  UNION { [1..n -> {"a", " "}] : n \in 1..MaxName } \cup { << "B", "a", "r" >> }

\* The grep value of a returned argument vector.
GrepValue == ValuesOf(args, << "--grep" >>)[1]

\* C16 as stated: the grep value of a selected suite S matches every name
\* S + ' ' + rest; selected alone, it matches no name of a suite whose name
\* is S and something more; the grep value of a case C selected alone
\* matches C and no longer name that starts with C.
C16_PrefixNonInterference ==
  (argsPc = "returned" /\ filter # NoFilter) =>
    \A i \in 1..Len(filter) :
      LET data == itemData[filter[i]]
      IN  /\ data.kind = "suite" =>
               /\ \A rest \in Rests :
                    RegExpTest(GrepValue, data.fullName \o << " " >> \o rest)
               /\ Len(filter) = 1 =>
                    \A ext \in Extensions, rest \in Rests :
                      ~RegExpTest(GrepValue,
                                  data.fullName \o ext \o << " " >> \o rest)
          /\ (data.kind = "case" /\ Len(filter) = 1) =>
               /\ RegExpTest(GrepValue, data.fullName)
               /\ \A ext \in Extensions :
                    ~RegExpTest(GrepValue, data.fullName \o ext)

\* C16 amended: as stated, but the suites whose tests are not matched are
\* those whose name goes on after S with a character that is not a blank.
C16_PrefixNonInterferenceNoBlank ==
  (argsPc = "returned" /\ filter # NoFilter) =>
    \A i \in 1..Len(filter) :
      LET data == itemData[filter[i]]
      IN  /\ data.kind = "suite" =>
               /\ \A rest \in Rests :
                    RegExpTest(GrepValue, data.fullName \o << " " >> \o rest)
               /\ Len(filter) = 1 =>
                    \A ext \in Extensions, rest \in Rests :
                      Head(ext) # " " =>
                        ~RegExpTest(GrepValue,
                                    data.fullName \o ext \o << " " >> \o rest)
          /\ (data.kind = "case" /\ Len(filter) = 1) =>
               /\ RegExpTest(GrepValue, data.fullName)
               /\ \A ext \in Extensions :
                    ~RegExpTest(GrepValue, data.fullName \o ext)

\* The suite Foo is selected alone: its grep value matches 'Foo x' and does
\* not match 'FooBar x'.
C16_Witness ==
  /\ argsPc = "returned"
  /\ filter = << "Foo" >>
  /\ RegExpTest(GrepValue, << "F", "o", "o", " ", "x" >>)
  /\ ~RegExpTest(GrepValue, << "F", "o", "o", "B", "a", "r", " ", "x" >>)

\* Every character of the class has a backslash before it, and no backslash
\* stands elsewhere.
RECURSIVE WellEscaped(_)
WellEscaped(e) ==
  IF e = <<>> THEN TRUE
  ELSE IF Head(e) = "\\"
       THEN Len(e) >= 2 /\ e[2] \in MetaChars /\ WellEscaped(SubSeq(e, 3, Len(e)))
       ELSE Head(e) \notin MetaChars /\ WellEscaped(Tail(e))

\* An escaped name without the backslashes that escape.
RECURSIVE Unescaped(_)
Unescaped(e) ==
  IF e = <<>> THEN <<>>
  ELSE IF Head(e) = "\\" /\ Len(e) >= 2
       THEN << e[2] >> \o Unescaped(SubSeq(e, 3, Len(e)))
       ELSE << Head(e) >> \o Unescaped(Tail(e))

\* Names a pattern that is not escaped could match.
Probes ==
  UNION { [1..n -> {"a", " "}] : n \in 0..(MaxName + 1) }
    \cup { << "A", "x", "B", "B", "C" >> }

\* C17: in the grep value of a case selected alone, the name stands with a
\* backslash before each character of the class and is otherwise unchanged,
\* and the value matches the name itself and no other name.
C17_Escaping ==
  (argsPc = "returned" /\ filter # NoFilter /\ Len(filter) = 1) =>
    LET data == itemData[filter[1]]
        escaped == SubSeq(GrepValue, 2, Len(GrepValue) - 2)
    IN  data.kind = "case" =>
          /\ WellEscaped(escaped)
          /\ Unescaped(escaped) = data.fullName
          /\ \A name \in Probes \cup {data.fullName} :
               RegExpTest(GrepValue, name) <=> name = data.fullName

\* The case A.B*C is selected: its grep value matches A.B*C, not AxBBC.
C17_Witness ==
  /\ argsPc = "returned"
  /\ filter = << "case" >>
  /\ itemData[filter[1]].fullName = << "A", ".", "B", "*", "C" >>
  /\ RegExpTest(GrepValue, << "A", ".", "B", "*", "C" >>)
  /\ ~RegExpTest(GrepValue, << "A", "x", "B", "B", "C" >>)

\* C21 as stated: while the listener is registered with files queued and no
\* cancellation requested, a rerun is eventually issued unless cancellation
\* is requested first, whatever notifications arrive that do not qualify.
C21_RerunEventually ==
  \A n \in 0..(MaxRuns - 1) :
    (listenerRegistered /\ ~cancelled /\ queuedFiles # <<>> /\ Len(issued) = n)
      ~> (cancelled \/ Len(issued) > n)

\* C22 as stated: the argument vector of a rerun of a continuous request
\* carries a '--grep' or '--run' flag, so no rerun is a run of the whole
\* suite.
C22_NoFullSuiteRerun ==
  (req.continuous /\ runner > 0 /\ argsPc = "returned") =>
    Positions(args, << "--grep" >>) \cup Positions(args, << "--run" >>) # {}

\* The subprocess of the i-th issued request was spawned with the argument
\* vector args and its run has not ended.
Running(i) == i \in inProgress /\ i = runner /\ argsPc = "returned"

\* C23 as stated: a continuous request issues no rerun while the subprocess
\* of a run it issued earlier is still running.
C23_NoOverlap ==
  [][ (req.continuous /\ issued' # issued) =>
        ~ \E i \in 1..Len(issued) : Running(i) ]_vars

\* C24 as stated: once the subprocess has exited, every connection the gate
\* accepted has been ended, those still queued at the exit included.
C24_HeldConnectionsClosed ==
  exited => \A sock \in 1..Len(endCalls) : endCalls[sock] >= 1

\* C25: every stop request made is for the recorded root session, none is
\* for an undefined session, and the recorded root does not change once the
\* subprocess has exited.
C25_StopTarget ==
  [][ /\ \A i \in 1..Len(stopRequests') :
           stopRequests'[i] # NoSession /\ stopRequests'[i] = rootSession'
      /\ exited => rootSession' = rootSession ]_vars

\* The subprocess exited without a recorded root; a session of the attach
\* configuration's name was announced without the listener being called,
\* and nothing was asked to stop.
C25_Witness ==
  /\ exited
  /\ rootSession = NoSession
  /\ stopRequests = <<>>
  /\ \E s \in announced :
       /\ sessions[s].name = ATTACH_CONFIG_NAME
       /\ s \notin Range(startedLog)

====
